---- MODULE Spec2Model ----
(***************************************************************************)
(* Model of src/fdp_par_commune.py: the QGIS Processing algorithm          *)
(* FDPParCommune.  One run of processAlgorithm is a state machine whose    *)
(* steps are cut at the blocking external calls (boundary lookup, the      *)
(* selection dialog, each WFS load, each registry page request, the        *)
(* geometry services).  The user may raise the cancellation flag of the    *)
(* feedback object at any moment; the code polls it at its checkpoints.    *)
(***************************************************************************)
EXTENDS Integers, Sequences, FiniteSets, TLC

\* ------------------------------------------------------------------ bounds
MaxMatches == 2      \* most features the boundary lookup returns
MaxPages   == 2      \* largest total_pages a registry response reports
MaxFaulty  == 2      \* most sources of one run whose load or clip fails
MaxCodeLen == 3      \* longest code string given to _get_dep on its own

\* ------------------------------------------------------- program constants
PER_PAGE    == 25     \* _load_sirene: page size sent with every request
RESULTS_CAP == 10000  \* _load_sirene: Elasticsearch ceiling of the API

VARIABLES
    pc,             \* phase of processAlgorithm
    canceled,       \* feedback.isCanceled()
    cancelObserved, \* a checkpoint has read isCanceled() as true
    lookups,        \* requests sent to the boundary lookup API
    lookup_status,  \* "none", "error" (RequestException) or "ok"
    features,       \* _search_commune: features of the lookup's answer
    dialogCalls,    \* executions of _CommuneSelectDialog
    candidates,     \* features handed to the dialog
    dlg_result,     \* "none", or how the dialog ended: "Accepted", "Rejected"
    commune,        \* dict returned by _search_commune, NoCommune before
    dep,            \* _get_dep(insee)
    raised,         \* the exception that ended the run, "" if none
    i,              \* 1-based index of the next entry of wfs_definitions
    fetched,        \* style keys _load_wfs_layer was called for, in order
    clip_failed,    \* style keys whose native:clip raised
    loaded_layers,  \* style_key -> layer (the dict of processAlgorithm)
    page,           \* _load_sirene: page
    total_pages,    \* _load_sirene: total_pages
    count,          \* _load_sirene: count
    mem_layer,      \* _load_sirene: features of the memory layer
    data,           \* _load_sirene: the body under extraction (SpecExtract)
    first_data,     \* total_results and total_pages of the first response
    requests,       \* registry page requests sent, in order
    sleeps,         \* inter-page delays taken
    warnings,       \* pushWarning calls of _load_sirene, in order
    processing_runs,\* processing.run calls of _load_sirene, in order
    group,          \* layers added to the project group, in order
    groupInserted,  \* root.insertGroup has run
    result,         \* what processAlgorithm returned
    progress        \* values given to feedback.setProgress, in order

vars == << pc, canceled, cancelObserved, lookups, lookup_status, features,
           dialogCalls, candidates, dlg_result, commune, dep, raised, i,
           fetched, clip_failed, loaded_layers, page, total_pages, count,
           mem_layer, data, first_data, requests, sleeps, warnings,
           processing_runs, group, groupInserted, result, progress >>

\* ------------------------------------------------------------ pure helpers
Min(a, b) == IF a < b THEN a ELSE b

\* Python str.startswith on a string held as a sequence of characters
StartsWith(s, p) == Len(s) >= Len(p) /\ SubSeq(s, 1, Len(p)) = p

\* Python slice s[:n]
Prefix(s, n) == SubSeq(s, 1, Min(n, Len(s)))

\* mutant of _get_dep: the overseas codes are cut like the mainland ones
get_depTwoChars(insee_code) ==
    IF StartsWith(insee_code, <<"2", "A">>) THEN <<"2", "A">>
    ELSE IF StartsWith(insee_code, <<"2", "B">>) THEN <<"2", "B">>
    ELSE Prefix(insee_code, 2)

\* FDPParCommune._get_dep
get_dep(insee_code) ==
    IF StartsWith(insee_code, <<"2", "A">>) THEN <<"2", "A">>
    ELSE IF StartsWith(insee_code, <<"2", "B">>) THEN <<"2", "B">>
    ELSE IF StartsWith(insee_code, <<"9", "7">>) THEN Prefix(insee_code, 3)
    ELSE Prefix(insee_code, 2)

\* ------------------------------------------------- the upstream boundary API
\* A geometry is held as its bounding rectangle, in integer degrees (EPSG:4326).
Features ==
    << [nom |-> "Annecy", code |-> <<"7", "4", "0", "1", "0">>,
        geometry |-> [xmin |-> 5, ymin |-> 45, xmax |-> 7, ymax |-> 46]],
       [nom |-> "Annecy-le-Vieux", code |-> <<"7", "4", "0", "1", "1">>,
        geometry |-> [xmin |-> 6, ymin |-> 45, xmax |-> 7, ymax |-> 47]],
       [nom |-> "Ajaccio", code |-> <<"2", "A", "0", "0", "4">>,
        geometry |-> [xmin |-> 8, ymin |-> 41, xmax |-> 9, ymax |-> 42]],
       [nom |-> "Saint-Denis", code |-> <<"9", "7", "4", "1", "1">>,
        geometry |-> [xmin |-> 55, ymin |-> -21, xmax |-> 56, ymax |-> -20]] >>

\* the feature lists a lookup may answer with: the first n catalogue entries
LookupAnswers == { SubSeq(Features, 1, n) : n \in 0..Min(MaxMatches, Len(Features)) }

NoCommune == [nom |-> "", code |-> <<>>,
              geometry |-> [xmin |-> 0, ymin |-> 0, xmax |-> 0, ymax |-> 0]]

\* ------------------------------------------------------ geometry services
\* QgsCoordinateTransform EPSG:4326 -> EPSG:2154, on integer degrees: an
\* affine stand-in that keeps order and moves every coordinate.
TransformX(lon) == 700000 + 70000 * (lon - 3)
TransformY(lat) == 6600000 + 111000 * (lat - 46)

TransformBox(g) == [xmin |-> TransformX(g.xmin), ymin |-> TransformY(g.ymin),
                    xmax |-> TransformX(g.xmax), ymax |-> TransformY(g.ymax)]

InBox(f, box) == /\ box.xmin <= f.x /\ f.x <= box.xmax
                 /\ box.ymin <= f.y /\ f.y <= box.ymax

\* processing.run('native:reprojectlayer') on a point layer
Reproject(layer) ==
    [layer EXCEPT !.crs = "EPSG:2154",
                  !.points = [k \in DOMAIN layer.points |->
                                [layer.points[k] EXCEPT
                                   !.x = TransformX(layer.points[k].x),
                                   !.y = TransformY(layer.points[k].y)]]]

\* processing.run('native:clip') of a point layer on the boundary layer
Clip(layer, boundary) ==
    [layer EXCEPT !.clipped = TRUE,
                  !.points = SelectSeq(layer.points, LAMBDA f : InBox(f, boundary))]

\* ------------------------------------------------------------- JSON values
JAbsent   == [t |-> "absent", n |-> 0, s |-> ""]   \* key missing (or null)
JNum(n)   == [t |-> "num", n |-> n, s |-> ""]
JStr(s)   == [t |-> "str", n |-> 0, s |-> s]
JList     == [t |-> "list", n |-> 0, s |-> ""]     \* a non-empty JSON array

\* Python truth value: None, 0 and "" are false
Truthy(v) ==
    CASE v.t = "absent" -> FALSE
      [] v.t = "num"    -> v.n # 0
      [] v.t = "str"    -> v.s # ""
      [] OTHER          -> TRUE

\* Python float() on the decimal strings the upstream sends
ParseFloat(s) ==
    CASE s = "0"   -> [ok |-> TRUE, v |-> 0]
      [] s = "6"   -> [ok |-> TRUE, v |-> 6]
      [] s = "45"  -> [ok |-> TRUE, v |-> 45]
      [] s = "-21" -> [ok |-> TRUE, v |-> 0 - 21]
      [] OTHER     -> [ok |-> FALSE, v |-> 0]      \* ValueError

\* Python float(v): a number as it is, a string parsed, else TypeError
Float(v) ==
    CASE v.t = "num" -> [ok |-> TRUE, v |-> v.n]
      [] v.t = "str" -> ParseFloat(v.s)
      [] OTHER       -> [ok |-> FALSE, v |-> 0]

\* dict.get(key, default)
Get(v, default) == IF v.t = "absent" THEN default ELSE v.n

\* ------------------------------------------------------ registry ingestion
\* _load_sirene, lines 443-454: the tests an establishment passes to be kept
EtabKept(etab) ==
    /\ etab.etat_administratif = JStr("A")
    /\ Truthy(etab.latitude)
    /\ Truthy(etab.longitude)
    /\ Float(etab.longitude).ok
    /\ Float(etab.latitude).ok

\* _load_sirene, lines 450-464: the point feature built from an establishment
EtabFeature(etab) ==
    [siret |-> etab.siret,
     x |-> Float(etab.longitude).v,
     y |-> Float(etab.latitude).v]

\* inner loop over company['matching_etablissements']
RECURSIVE EtabFeatures(_)
EtabFeatures(etabs) ==
    IF etabs = <<>> THEN <<>>
    ELSE (IF EtabKept(Head(etabs)) THEN <<EtabFeature(Head(etabs))>> ELSE <<>>)
         \o EtabFeatures(Tail(etabs))

\* mutant of ExtractFeatures: the outer loop is left after the first company
ExtractFeaturesFirstCompany(results) ==
    IF results = <<>> THEN <<>>
    ELSE EtabFeatures(Head(results).matching_etablissements)

\* outer loop over data['results']: the list `features` of one page
RECURSIVE ExtractFeatures(_)
ExtractFeatures(results) ==
    IF results = <<>> THEN <<>>
    ELSE EtabFeatures(Head(results).matching_etablissements)
         \o ExtractFeatures(Tail(results))

\* --------------------------------------------------- declared source lists
\* processAlgorithm, wfs_definitions: (typename, display name, style key)
wfs_definitions ==
    << [typename |-> "ADMINEXPRESS-COG-CARTO.LATEST:commune",
        display_name |-> "Commune (limite)", style_key |-> "commune_boundary"],
       [typename |-> "CADASTRALPARCELS.PARCELLAIRE_EXPRESS:parcelle",
        display_name |-> "Parcelles cadastrales", style_key |-> "parcels"],
       [typename |-> "BDTOPO_V3:cours_d_eau",
        display_name |-> "Hydrographie - cours d'eau", style_key |-> "rivers"],
       [typename |-> "BDTOPO_V3:surface_hydrographique",
        display_name |-> "Hydrographie - surface", style_key |-> "water_surface"],
       [typename |-> "BDTOPO_V3:troncon_de_route",
        display_name |-> "Voirie", style_key |-> "roads"],
       [typename |-> "BDTOPO_V3:troncon_de_voie_ferree",
        display_name |-> "Voie ferree", style_key |-> "railways"],
       [typename |-> "BDTOPO_V3:batiment",
        display_name |-> "Bati", style_key |-> "buildings"],
       [typename |-> "BDTOPO_V3:zone_de_vegetation",
        display_name |-> "Vegetation", style_key |-> "vegetation"] >>

\* mutant of layer_order: the layers are added in the order they were loaded
layer_orderAsLoaded ==
    << "commune_boundary", "parcels", "rivers", "water_surface", "roads",
       "railways", "buildings", "vegetation", "sirene" >>

\* processAlgorithm, layer_order: first added ends on top of the legend
layer_order ==
    << "sirene", "buildings", "roads", "railways", "vegetation", "rivers",
       "water_surface", "parcels", "commune_boundary" >>

NumSources == Len(wfs_definitions)

\* --------------------------------------------------------------- the state
NoData     == [total_results |-> JAbsent, total_pages |-> JAbsent, results |-> <<>>,
               received |-> FALSE]
NotReturned == [returned |-> FALSE, outputs |-> <<>>]

Init ==
    /\ pc = "Resolving"
    /\ canceled = FALSE
    /\ cancelObserved = FALSE
    /\ lookups = 0
    /\ lookup_status = "none"
    /\ features = <<>>
    /\ dialogCalls = 0
    /\ candidates = <<>>
    /\ dlg_result = "none"
    /\ commune = NoCommune
    /\ dep = <<>>
    /\ raised = ""
    /\ i = 1
    /\ fetched = <<>>
    /\ clip_failed = {}
    /\ loaded_layers = <<>>
    /\ page = 1
    /\ total_pages = 1
    /\ count = 0
    /\ mem_layer = <<>>
    /\ data = NoData
    /\ first_data = NoData
    /\ requests = <<>>
    /\ sleeps = 0
    /\ warnings = <<>>
    /\ processing_runs = <<>>
    /\ group = <<>>
    /\ groupInserted = FALSE
    /\ result = NotReturned
    /\ progress = <<>>

resolverVars == << lookups, lookup_status, features, dialogCalls, candidates,
                   dlg_result, commune, dep >>
fetchVars    == << i, fetched, clip_failed >>
sireneVars   == << page, total_pages, count, mem_layer, data, first_data,
                   requests, sleeps, warnings, processing_runs >>
projectVars  == << group, groupInserted, result >>

\* the user presses Cancel: the flag stays raised for the rest of the run.
\* No checkpoint reads it once the registry phase is over.
Cancel ==
    /\ pc \in {"Resolving", "Choosing", "FetchingLayers", "IngestingRegistry"}
    /\ ~canceled
    /\ canceled' = TRUE
    /\ UNCHANGED << pc, cancelObserved, resolverVars, raised, fetchVars,
                    loaded_layers, sireneVars, projectVars, progress >>

\* ------------------------------------------------------- boundary resolver
\* _search_commune lines 256-261 and _CommuneSelectDialog.accept: the dict
\* built from a feature of the answer
CommuneOf(feature) ==
    [nom |-> feature.nom, code |-> feature.code, geometry |-> feature.geometry]

\* processAlgorithm lines 105-124, once _search_commune has returned c
Resolved(c) ==
    /\ commune' = c
    /\ dep' = get_dep(c.code)
    /\ progress' = progress \o <<5, 10>>
    /\ pc' = "FetchingLayers"

\* mutant of LookupFails: the failed lookup is sent again
LookupFailsRetries ==
    /\ pc = "Resolving"
    /\ lookups < 3
    /\ lookups' = lookups + 1
    /\ lookup_status' = "error"
    /\ UNCHANGED << pc, canceled, cancelObserved, features, dialogCalls,
                    candidates, dlg_result, commune, dep, raised, fetchVars,
                    loaded_layers, sireneVars, projectVars, progress >>

\* _search_commune lines 245-249: requests.get or raise_for_status raises
LookupFails ==
    /\ pc = "Resolving"
    /\ lookups' = lookups + 1
    /\ lookup_status' = "error"
    /\ raised' = "ApiUnreachable"
    /\ pc' = "Failed"
    /\ UNCHANGED << canceled, cancelObserved, features, dialogCalls, candidates,
                    dlg_result, commune, dep, fetchVars, loaded_layers,
                    sireneVars, projectVars, progress >>

\* mutant of LookupEmpty: the empty answer is not tested, the dialog opens
LookupEmptyOpensDialog ==
    /\ pc = "Resolving"
    /\ lookups' = lookups + 1
    /\ lookup_status' = "ok"
    /\ features' = <<>>
    /\ candidates' = <<>>
    /\ dialogCalls' = dialogCalls + 1
    /\ pc' = "Choosing"
    /\ UNCHANGED << canceled, cancelObserved, dlg_result, commune, dep, raised,
                    fetchVars, loaded_layers, sireneVars, projectVars,
                    progress >>

\* _search_commune lines 251-253: the lookup answers with no feature
LookupEmpty ==
    /\ pc = "Resolving"
    /\ lookups' = lookups + 1
    /\ lookup_status' = "ok"
    /\ features' = <<>>
    /\ raised' = "NoCommuneFound"
    /\ pc' = "Failed"
    /\ UNCHANGED << canceled, cancelObserved, dialogCalls, candidates,
                    dlg_result, commune, dep, fetchVars, loaded_layers,
                    sireneVars, projectVars, progress >>

\* mutant of LookupSingle: the dialog opens for a single feature too
LookupSingleOpensDialog ==
    /\ pc = "Resolving"
    /\ \E answer \in LookupAnswers :
         /\ Len(answer) = 1
         /\ features' = answer
         /\ candidates' = answer
    /\ lookups' = lookups + 1
    /\ lookup_status' = "ok"
    /\ dialogCalls' = dialogCalls + 1
    /\ pc' = "Choosing"
    /\ UNCHANGED << canceled, cancelObserved, dlg_result, commune, dep, raised,
                    fetchVars, loaded_layers, sireneVars, projectVars,
                    progress >>

\* _search_commune lines 255-261: exactly one feature, returned directly
LookupSingle ==
    /\ pc = "Resolving"
    /\ \E answer \in LookupAnswers :
         /\ Len(answer) = 1
         /\ features' = answer
         /\ Resolved(CommuneOf(answer[1]))
    /\ lookups' = lookups + 1
    /\ lookup_status' = "ok"
    /\ UNCHANGED << canceled, cancelObserved, dialogCalls, candidates,
                    dlg_result, raised, fetchVars, loaded_layers, sireneVars,
                    projectVars >>

\* _search_commune lines 263-265: several features, the selection dialog opens
LookupMultiple ==
    /\ pc = "Resolving"
    /\ \E answer \in LookupAnswers :
         /\ Len(answer) > 1
         /\ features' = answer
         /\ candidates' = answer
    /\ lookups' = lookups + 1
    /\ lookup_status' = "ok"
    /\ dialogCalls' = dialogCalls + 1
    /\ pc' = "Choosing"
    /\ UNCHANGED << canceled, cancelObserved, dlg_result, commune, dep, raised,
                    fetchVars, loaded_layers, sireneVars, projectVars,
                    progress >>

\* _CommuneSelectDialog.accept with a current row, _search_commune line 267
DialogAccepted ==
    /\ pc = "Choosing"
    /\ \E row \in 1..Len(candidates) : Resolved(CommuneOf(candidates[row]))
    /\ dlg_result' = "Accepted"
    /\ UNCHANGED << canceled, cancelObserved, lookups, lookup_status, features,
                    dialogCalls, candidates, raised, fetchVars, loaded_layers,
                    sireneVars, projectVars >>

\* mutant of DialogDeclined: a rejected dialog falls back on the first row
DialogDeclinedTakesFirst ==
    /\ pc = "Choosing"
    /\ dlg_result' = "Rejected"
    /\ Resolved(CommuneOf(candidates[1]))
    /\ UNCHANGED << canceled, cancelObserved, lookups, lookup_status, features,
                    dialogCalls, candidates, raised, fetchVars, loaded_layers,
                    sireneVars, projectVars >>

\* _search_commune lines 265-266, processAlgorithm lines 102-103: the dialog
\* is rejected, None is returned and processAlgorithm raises
DialogDeclined ==
    /\ pc = "Choosing"
    /\ dlg_result' = "Rejected"
    /\ raised' = "NoCommuneSelected"
    /\ pc' = "Cancelled"
    /\ UNCHANGED << canceled, cancelObserved, lookups, lookup_status, features,
                    dialogCalls, candidates, commune, dep, fetchVars,
                    loaded_layers, sireneVars, projectVars, progress >>

\* ---------------------------------------------------- bounding-box fetcher
\* _load_wfs_layer: the layer loaded by QgsVectorLayer(uri, ..., 'WFS'); the
\* URI asks for SRSNAME=EPSG:2154.  Its features are not modelled.
WfsLayer(def) ==
    [name |-> def.display_name, crs |-> "EPSG:2154", clipped |-> FALSE,
     points |-> <<>>]

\* _load_wfs_layer lines 358-364: the output of native:clip, renamed
ClippedWfsLayer(def) == [WfsLayer(def) EXCEPT !.clipped = TRUE]

\* _load_wfs_layer lines 365-370: the clip raised, the loaded layer is returned
ClipFallbackLayer(def) == WfsLayer(def)

\* dict assignment loaded_layers[key] = layer
Put(layers, key, layer) == (key :> layer) @@ layers

\* mutant of AfterFetch: the loop stops one source short of the list's end
AfterFetchStopsOneShort(layer) ==
    /\ fetched' = Append(fetched, wfs_definitions[i].style_key)
    /\ clip_failed' = IF layer # <<>> /\ ~layer[1].clipped
                        THEN clip_failed \cup {wfs_definitions[i].style_key}
                        ELSE clip_failed
    /\ loaded_layers' = IF layer # <<>>
                          THEN Put(loaded_layers, wfs_definitions[i].style_key, layer[1])
                          ELSE loaded_layers
    /\ progress' = Append(progress, 10 + (i * 40) \div NumSources)
    /\ i' = i + 1
    /\ pc' = IF i >= NumSources - 1 THEN "IngestingRegistry" ELSE "FetchingLayers"
    /\ UNCHANGED << canceled, cancelObserved, resolverVars, raised, sireneVars,
                    projectVars >>

\* processAlgorithm lines 157-159 and the loop's end: layer is the fetcher's
\* result, <<>> standing for None
AfterFetch(layer) ==
    /\ fetched' = Append(fetched, wfs_definitions[i].style_key)
    /\ clip_failed' = IF layer # <<>> /\ ~layer[1].clipped
                        THEN clip_failed \cup {wfs_definitions[i].style_key}
                        ELSE clip_failed
    /\ loaded_layers' = IF layer # <<>>
                          THEN Put(loaded_layers, wfs_definitions[i].style_key, layer[1])
                          ELSE loaded_layers
    /\ progress' = Append(progress, 10 + (i * 40) \div NumSources)
    /\ i' = i + 1
    /\ pc' = IF i = NumSources THEN "IngestingRegistry" ELSE "FetchingLayers"
    /\ UNCHANGED << canceled, cancelObserved, resolverVars, raised, sireneVars,
                    projectVars >>

\* return {}
ReturnEmpty == [returned |-> TRUE, outputs |-> <<>>]

AtFetchCheckpoint == pc = "FetchingLayers" /\ i <= NumSources

\* sources fetched so far that came back invalid, empty or unclipped
FaultySources ==
    Cardinality({ k \in 1..Len(fetched) :
                    \/ fetched[k] \notin DOMAIN loaded_layers
                    \/ ~loaded_layers[fetched[k]].clipped })

MayFail == FaultySources < MaxFaulty

\* mutant of FetchCancelled: the checkpoint notes the cancellation and has no
\* return, the source is loaded all the same
FetchCancelledProceeds ==
    /\ AtFetchCheckpoint
    /\ canceled
    /\ cancelObserved' = TRUE
    /\ fetched' = Append(fetched, wfs_definitions[i].style_key)
    /\ loaded_layers' = Put(loaded_layers, wfs_definitions[i].style_key,
                            ClippedWfsLayer(wfs_definitions[i]))
    /\ progress' = Append(progress, 10 + (i * 40) \div NumSources)
    /\ i' = i + 1
    /\ pc' = IF i = NumSources THEN "IngestingRegistry" ELSE "FetchingLayers"
    /\ UNCHANGED << canceled, resolverVars, raised, clip_failed, sireneVars,
                    projectVars >>

\* mutant of FetchCancelled: the checkpoint adds what was loaded to the project
\* before it returns
FetchCancelledAddsLoaded ==
    /\ AtFetchCheckpoint
    /\ canceled
    /\ cancelObserved' = TRUE
    /\ groupInserted' = TRUE
    /\ LET keys == SelectSeq(layer_order, LAMBDA key : key \in DOMAIN loaded_layers)
       IN  group' = [ k \in 1..Len(keys) |->
                        [style_key |-> keys[k], layer |-> loaded_layers[keys[k]]] ]
    /\ result' = [returned |-> TRUE, outputs |-> <<>>]
    /\ pc' = "Cancelled"
    /\ UNCHANGED << canceled, resolverVars, raised, fetchVars, loaded_layers,
                    sireneVars, progress >>

\* mutant of FetchCancelled: the checkpoint leaves the loop with a break
FetchCancelledBreaks ==
    /\ AtFetchCheckpoint
    /\ canceled
    /\ cancelObserved' = TRUE
    /\ pc' = "IngestingRegistry"
    /\ UNCHANGED << canceled, resolverVars, raised, fetchVars, loaded_layers,
                    sireneVars, projectVars, progress >>

\* processAlgorithm lines 151-152: the checkpoint sees the flag, return {}
FetchCancelled ==
    /\ AtFetchCheckpoint
    /\ canceled
    /\ cancelObserved' = TRUE
    /\ result' = ReturnEmpty
    /\ pc' = "Cancelled"
    /\ UNCHANGED << canceled, resolverVars, raised, fetchVars, loaded_layers,
                    sireneVars, group, groupInserted, progress >>

\* _load_wfs_layer lines 349-351: the layer is not valid
FetchInvalid ==
    /\ AtFetchCheckpoint /\ ~canceled
    /\ MayFail
    /\ AfterFetch(<<>>)

\* mutant of FetchEmpty: an empty source raises and ends the run
FetchEmptyAborts ==
    /\ AtFetchCheckpoint /\ ~canceled
    /\ MayFail
    /\ fetched' = Append(fetched, wfs_definitions[i].style_key)
    /\ raised' = "EmptySource"
    /\ pc' = "Failed"
    /\ UNCHANGED << canceled, cancelObserved, resolverVars, i, clip_failed,
                    loaded_layers, sireneVars, projectVars, progress >>

\* _load_wfs_layer lines 352-354: the layer has no feature
FetchEmpty ==
    /\ AtFetchCheckpoint /\ ~canceled
    /\ MayFail
    /\ AfterFetch(<<>>)

\* _load_wfs_layer lines 357-364: loaded and clipped
FetchClipped ==
    /\ AtFetchCheckpoint /\ ~canceled
    /\ AfterFetch(<<ClippedWfsLayer(wfs_definitions[i])>>)

\* mutant of FetchClipFailed: a failed clip discards the layer, None is returned
FetchClipFailedReturnsNone ==
    /\ AtFetchCheckpoint /\ ~canceled
    /\ MayFail
    /\ fetched' = Append(fetched, wfs_definitions[i].style_key)
    /\ clip_failed' = clip_failed \cup {wfs_definitions[i].style_key}
    /\ progress' = Append(progress, 10 + (i * 40) \div NumSources)
    /\ i' = i + 1
    /\ pc' = IF i = NumSources THEN "IngestingRegistry" ELSE "FetchingLayers"
    /\ UNCHANGED << canceled, cancelObserved, resolverVars, raised,
                    loaded_layers, sireneVars, projectVars >>

\* _load_wfs_layer lines 365-370: loaded, the clip fails
FetchClipFailed ==
    /\ AtFetchCheckpoint /\ ~canceled
    /\ MayFail
    /\ AfterFetch(<<ClipFallbackLayer(wfs_definitions[i])>>)

\* ------------------------------------------------- the upstream registry API
Etab(siret, etat, lat, lon) ==
    [siret |-> siret, etat_administratif |-> etat, latitude |-> lat,
     longitude |-> lon]

Company(etabs) == [nom_complet |-> "SARL", matching_etablissements |-> etabs]

\* the establishment in position k of page p carries its own siret
SiretAt(p, k) == 100 * p + k

\* values total_pages takes in a response: missing, 0, 1, ...
TotalPagesValues == {JAbsent} \cup { JNum(n) : n \in 0..MaxPages }

\* values total_results takes: missing, under the cap, at the cap
TotalResultsValues == {JAbsent, JNum(RESULTS_CAP - 1), JNum(RESULTS_CAP)}

OkResponse(tr, tp, results) ==
    [total_results |-> tr, total_pages |-> tp, results |-> results,
     received |-> FALSE]

\* establishments the upstream may send in position k of page p: active or
\* closed, coordinates as decimal strings or numbers, inside or outside the
\* commune, missing, zero, empty, not a number, not a scalar
EtabSamples(p, k) ==
    { Etab(SiretAt(p, k), e[1], e[2], e[3]) : e \in
        { << JStr("A"), JStr("45"), JStr("6") >>,
          << JStr("A"), JNum(45),   JNum(6) >>,
          << JStr("A"), JStr("0"),  JStr("0") >>,
          << JStr("F"), JStr("45"), JStr("6") >>,
          << JAbsent,   JStr("45"), JStr("6") >>,
          << JStr("A"), JNum(0),    JNum(6) >>,
          << JStr("A"), JStr("45"), JNum(0) >>,
          << JStr("A"), JAbsent,    JStr("6") >>,
          << JStr("A"), JStr("45"), JAbsent >>,
          << JStr("A"), JStr(""),   JStr("6") >>,
          << JStr("A"), JStr("abc"), JStr("6") >>,
          << JStr("A"), JStr("45"), JList >> } }

\* the lists data['results'] may hold on page p: no company, a company with
\* no establishment, one establishment, or two companies of which the first
\* has an active and a closed establishment
ResultSamples(p) ==
    { <<>>, << Company(<<>>) >> }
    \cup { << Company(<< e >>) >> : e \in EtabSamples(p, 1) }
    \cup { << Company(<< Etab(SiretAt(p, 1), JStr("A"), JStr("45"), JStr("6")),
                         Etab(SiretAt(p, 2), JStr("F"), JStr("45"), JStr("6")) >>),
              Company(<< e >>) >> : e \in EtabSamples(p, 3) }

\* the JSON bodies a successful page request may return; total_pages goes one
\* past MaxPages so that a later response may report more or fewer pages than
\* the first one did
PageResponses(p) ==
    { OkResponse(JNum(1), tp, rs) :
        tp \in {JAbsent, JNum(MaxPages)}, rs \in ResultSamples(p) }
    \cup
    { OkResponse(tr, tp, rs) :
        tr \in TotalResultsValues, tp \in TotalPagesValues \cup {JNum(MaxPages + 1)},
        rs \in { <<>>, << Company(<< Etab(SiretAt(p, 1), JStr("A"), JStr("45"), JStr("6")) >>) >> } }

\* the bodies drawn in the specification of the whole pipeline: any page
\* count, and no establishment, an active one inside the commune or a closed one
PipelineResponses(p) ==
    { OkResponse(JNum(1), tp, rs) :
        tp \in TotalPagesValues,
        rs \in { <<>>,
                 << Company(<< Etab(SiretAt(p, 1), JStr("A"), JStr("45"), JStr("6")) >>) >>,
                 << Company(<< Etab(SiretAt(p, 1), JStr("F"), JStr("45"), JStr("6")) >>) >> } }

\* ------------------------------------------------------ registry ingester
\* mutant of ToComposing: the progress of the registry phase repeats the value
\* the source loop ended on
ToComposingKeepsFifty ==
    /\ progress' = Append(progress, 50)
    /\ pc' = "Composing"

\* processAlgorithm line 169, after _load_sirene has returned or was skipped
ToComposing ==
    /\ progress' = Append(progress, 80)
    /\ pc' = "Composing"

\* _load_sirene line 411: the loop's condition
LoopCondition == page <= total_pages

AtPageCheckpoint == pc = "IngestingRegistry" /\ LoopCondition


\* _load_sirene line 395: the memory layer the features were added to
RawSireneLayer ==
    [name |-> "SIRENE_raw", crs |-> "EPSG:4326", clipped |-> FALSE,
     points |-> mem_layer]

\* processAlgorithm lines 117-123: the boundary layer, in EPSG:2154
boundary_layer == TransformBox(commune.geometry)

\* mutant of SireneLayer: the memory layer is clipped without reprojection
SireneLayerNotReprojected ==
    [Clip(RawSireneLayer, boundary_layer) EXCEPT !.name = "Etablissements SIRENE"]

\* _load_sirene lines 484-498: reprojected, clipped and renamed
SireneLayer ==
    [Clip(Reproject(RawSireneLayer), boundary_layer) EXCEPT !.name = "Etablissements SIRENE"]

\* processAlgorithm line 162: the flag is up before _load_sirene is called
SireneSkipped ==
    /\ pc = "IngestingRegistry" /\ requests = <<>> /\ page = 1
    /\ canceled
    /\ cancelObserved' = TRUE
    /\ ToComposing
    /\ UNCHANGED << canceled, resolverVars, raised, fetchVars, loaded_layers,
                    sireneVars, projectVars >>

\* mutant of SirenePageCancelled: the checkpoint leaves the loop with a
\* break, and what was collected is finished into a layer
SirenePageCancelledBreaks ==
    /\ AtPageCheckpoint
    /\ canceled
    /\ cancelObserved' = TRUE
    /\ loaded_layers' = IF count # 0 THEN Put(loaded_layers, "sirene", SireneLayer)
                                     ELSE loaded_layers
    /\ ToComposing
    /\ UNCHANGED << canceled, resolverVars, raised, fetchVars, sireneVars,
                    projectVars >>

\* _load_sirene lines 412-413: the page checkpoint sees the flag, return None
SirenePageCancelled ==
    /\ AtPageCheckpoint
    /\ canceled
    /\ cancelObserved' = TRUE
    /\ ToComposing
    /\ UNCHANGED << canceled, resolverVars, raised, fetchVars, loaded_layers,
                    sireneVars, projectVars >>

\* mutant of PageRequest: the page number is not passed on
PageRequestFirstPage ==
    [code_commune |-> commune.code, per_page |-> PER_PAGE, page |-> 1]

\* _load_sirene lines 415-419: the parameters of the page request
PageRequest == [code_commune |-> commune.code, per_page |-> PER_PAGE, page |-> page]

\* _load_sirene lines 420, 500-502: the response has an error status
SirenePageHttpError ==
    /\ AtPageCheckpoint /\ ~canceled
    /\ requests' = Append(requests, PageRequest)
    /\ warnings' = Append(warnings, "HTTPError")
    /\ ToComposing
    /\ UNCHANGED << canceled, cancelObserved, resolverVars, raised, fetchVars,
                    loaded_layers, page, total_pages, count, mem_layer, data,
                    first_data, sleeps, processing_runs, projectVars >>

\* mutant of SirenePageFails: no handler, the exception ends the run
SirenePageFailsPropagates ==
    /\ AtPageCheckpoint /\ ~canceled
    /\ requests' = Append(requests, PageRequest)
    /\ warnings' = Append(warnings, "Exception")
    /\ raised' = "Exception"
    /\ pc' = "Failed"
    /\ UNCHANGED << canceled, cancelObserved, resolverVars, fetchVars,
                    loaded_layers, page, total_pages, count, mem_layer, data,
                    first_data, sleeps, processing_runs, projectVars,
                    progress >>

\* _load_sirene lines 415-421, 503-507: timeout, connection error, bad JSON
SirenePageFails ==
    /\ AtPageCheckpoint /\ ~canceled
    /\ requests' = Append(requests, PageRequest)
    /\ warnings' = Append(warnings, "Exception")
    /\ ToComposing
    /\ UNCHANGED << canceled, cancelObserved, resolverVars, raised, fetchVars,
                    loaded_layers, page, total_pages, count, mem_layer, data,
                    first_data, sleeps, processing_runs, projectVars >>

\* mutant of SirenePage: total_pages is read again from every response
SirenePageRereadsTotal(body) ==
    LET new_total == Get(body.total_pages, 1)
        truncated == page = 1 /\ Get(body.total_results, 0) >= RESULTS_CAP
        new_feats == ExtractFeatures(body.results)
    IN  /\ AtPageCheckpoint /\ ~canceled
        /\ requests' = Append(requests, PageRequest)
        /\ first_data' = IF page = 1
                           THEN [body EXCEPT !.received = TRUE, !.results = <<>>]
                           ELSE first_data
        /\ total_pages' = new_total
        /\ warnings' = IF truncated THEN Append(warnings, "Truncated") ELSE warnings
        /\ mem_layer' = mem_layer \o new_feats
        /\ count' = count + Len(new_feats)
        /\ page' = page + 1
        /\ sleeps' = IF page + 1 <= new_total THEN sleeps + 1 ELSE sleeps
        /\ UNCHANGED << pc, canceled, cancelObserved, resolverVars, raised,
                        fetchVars, loaded_layers, data, processing_runs,
                        projectVars, progress >>

\* mutant of SirenePage: total_results is tested against the cap on every page
SirenePageWarnsEveryPage(body) ==
    LET new_total == IF page = 1 THEN Get(body.total_pages, 1) ELSE total_pages
        truncated == Get(body.total_results, 0) >= RESULTS_CAP
        new_feats == ExtractFeatures(body.results)
    IN  /\ AtPageCheckpoint /\ ~canceled
        /\ requests' = Append(requests, PageRequest)
        /\ first_data' = IF page = 1
                           THEN [body EXCEPT !.received = TRUE, !.results = <<>>]
                           ELSE first_data
        /\ total_pages' = new_total
        /\ warnings' = IF truncated THEN Append(warnings, "Truncated") ELSE warnings
        /\ mem_layer' = mem_layer \o new_feats
        /\ count' = count + Len(new_feats)
        /\ page' = page + 1
        /\ sleeps' = IF page + 1 <= new_total THEN sleeps + 1 ELSE sleeps
        /\ UNCHANGED << pc, canceled, cancelObserved, resolverVars, raised,
                        fetchVars, loaded_layers, data, processing_runs,
                        projectVars, progress >>

\* mutant of SirenePage: the delay is taken after every page, the last included
SirenePageAlwaysSleeps(body) ==
    LET new_total == IF page = 1 THEN Get(body.total_pages, 1) ELSE total_pages
        truncated == page = 1 /\ Get(body.total_results, 0) >= RESULTS_CAP
        new_feats == ExtractFeatures(body.results)
    IN  /\ AtPageCheckpoint /\ ~canceled
        /\ requests' = Append(requests, PageRequest)
        /\ first_data' = IF page = 1
                           THEN [body EXCEPT !.received = TRUE, !.results = <<>>]
                           ELSE first_data
        /\ total_pages' = new_total
        /\ warnings' = IF truncated THEN Append(warnings, "Truncated") ELSE warnings
        /\ mem_layer' = mem_layer \o new_feats
        /\ count' = count + Len(new_feats)
        /\ page' = page + 1
        /\ sleeps' = sleeps + 1
        /\ UNCHANGED << pc, canceled, cancelObserved, resolverVars, raised,
                        fetchVars, loaded_layers, data, processing_runs,
                        projectVars, progress >>

\* _load_sirene lines 415-475: one iteration of the loop on response data
SirenePage(body) ==
    LET new_total == IF page = 1 THEN Get(body.total_pages, 1) ELSE total_pages
        truncated == page = 1 /\ Get(body.total_results, 0) >= RESULTS_CAP
        new_feats == ExtractFeatures(body.results)
    IN  /\ AtPageCheckpoint /\ ~canceled
        /\ requests' = Append(requests, PageRequest)
        /\ first_data' = IF page = 1
                           THEN [body EXCEPT !.received = TRUE, !.results = <<>>]
                           ELSE first_data
        /\ total_pages' = new_total
        /\ warnings' = IF truncated THEN Append(warnings, "Truncated") ELSE warnings
        /\ mem_layer' = mem_layer \o new_feats
        /\ count' = count + Len(new_feats)
        /\ page' = page + 1
        /\ sleeps' = IF page + 1 <= new_total THEN sleeps + 1 ELSE sleeps
        /\ UNCHANGED << pc, canceled, cancelObserved, resolverVars, raised,
                        fetchVars, loaded_layers, data, processing_runs,
                        projectVars, progress >>

\* a page of the whole-pipeline specification
SirenePageOk == \E body \in PipelineResponses(page) : SirenePage(body)

\* a page of the registry specification: any sampled body
SirenePageAny == \E body \in PageResponses(page) : SirenePage(body)

AfterLastPage == pc = "IngestingRegistry" /\ ~LoopCondition

\* mutant of SireneNothing: count is not tested, the empty layer is finished
SireneNothingReprojects ==
    /\ AfterLastPage
    /\ count = 0
    /\ processing_runs' = << "native:reprojectlayer", "native:clip" >>
    /\ loaded_layers' = Put(loaded_layers, "sirene", SireneLayer)
    /\ ToComposing
    /\ UNCHANGED << canceled, cancelObserved, resolverVars, raised, fetchVars,
                    page, total_pages, count, mem_layer, data, first_data,
                    requests, sleeps, warnings, projectVars >>

\* _load_sirene lines 480-481: nothing was collected, return None
SireneNothing ==
    /\ AfterLastPage
    /\ count = 0
    /\ ToComposing
    /\ UNCHANGED << canceled, cancelObserved, resolverVars, raised, fetchVars,
                    loaded_layers, sireneVars, projectVars >>

\* _load_sirene lines 483-498, processAlgorithm 167-168: the layer is kept
SireneLoaded ==
    /\ AfterLastPage
    /\ count # 0
    /\ processing_runs' = << "native:reprojectlayer", "native:clip" >>
    /\ loaded_layers' = Put(loaded_layers, "sirene", SireneLayer)
    /\ ToComposing
    /\ UNCHANGED << canceled, cancelObserved, resolverVars, raised, fetchVars,
                    page, total_pages, count, mem_layer, data, first_data,
                    requests, sleeps, warnings, projectVars >>

\* _load_sirene lines 484-488, 503-507: native:reprojectlayer raises
SireneReprojectFails ==
    /\ AfterLastPage
    /\ count # 0
    /\ processing_runs' = << "native:reprojectlayer" >>
    /\ warnings' = Append(warnings, "Exception")
    /\ ToComposing
    /\ UNCHANGED << canceled, cancelObserved, resolverVars, raised, fetchVars,
                    loaded_layers, page, total_pages, count, mem_layer, data,
                    first_data, requests, sleeps, projectVars >>

\* mutant of SireneClipFails: as in _load_wfs_layer, a failed clip falls back
\* on the layer that was to be clipped
SireneClipFailsFallsBack ==
    /\ AfterLastPage
    /\ count # 0
    /\ processing_runs' = << "native:reprojectlayer", "native:clip" >>
    /\ warnings' = Append(warnings, "Exception")
    /\ loaded_layers' = Put(loaded_layers, "sirene", Reproject(RawSireneLayer))
    /\ ToComposing
    /\ UNCHANGED << canceled, cancelObserved, resolverVars, raised, fetchVars,
                    page, total_pages, count, mem_layer, data, first_data,
                    requests, sleeps, projectVars >>

\* _load_sirene lines 491-495, 503-507: native:clip raises
SireneClipFails ==
    /\ AfterLastPage
    /\ count # 0
    /\ processing_runs' = << "native:reprojectlayer", "native:clip" >>
    /\ warnings' = Append(warnings, "Exception")
    /\ ToComposing
    /\ UNCHANGED << canceled, cancelObserved, resolverVars, raised, fetchVars,
                    loaded_layers, page, total_pages, count, mem_layer, data,
                    first_data, requests, sleeps, projectVars >>

\* -------------------------------------------------------------- composition
\* processAlgorithm lines 192-199: the layers added to the group, in order
RECURSIVE AddedLayers(_, _)
AddedLayers(order, layers) ==
    IF order = <<>> THEN <<>>
    ELSE (IF Head(order) \in DOMAIN layers
            THEN << [style_key |-> Head(order), layer |-> layers[Head(order)]] >>
            ELSE <<>>)
         \o AddedLayers(Tail(order), layers)

\* processAlgorithm lines 189-229: the group, its layers, the save prompt
Compose ==
    /\ pc = "Composing"
    /\ groupInserted' = TRUE
    /\ group' = AddedLayers(layer_order, loaded_layers)
    /\ progress' = progress \o <<90, 100>>
    /\ result' = ReturnEmpty
    /\ pc' = "Done"
    /\ UNCHANGED << canceled, cancelObserved, resolverVars, raised, fetchVars,
                    loaded_layers, sireneVars >>

Next ==
    \/ Cancel
    \/ LookupFails \/ LookupEmpty \/ LookupSingle \/ LookupMultiple
    \/ DialogAccepted \/ DialogDeclined
    \/ FetchCancelled \/ FetchInvalid \/ FetchEmpty \/ FetchClipped
    \/ FetchClipFailed
    \/ SireneSkipped \/ SirenePageCancelled \/ SirenePageHttpError
    \/ SirenePageFails \/ SirenePageOk
    \/ SireneNothing \/ SireneLoaded \/ SireneReprojectFails \/ SireneClipFails
    \/ Compose

Spec == Init /\ [][Next]_vars

\* ---------------------------------------------- the registry ingester alone
\* loaded_layers after a fetch loop in which every source was loaded and
\* clipped, but for the `absent` ones (invalid or empty) and the `unclipped`
\* ones (their clip failed)
LoadedAfterFetch(absent, unclipped) ==
    [ key \in { wfs_definitions[k].style_key : k \in 1..NumSources } \ absent |->
        LET def == CHOOSE d \in { wfs_definitions[k] : k \in 1..NumSources } :
                      d.style_key = key
        IN  IF key \in unclipped THEN ClipFallbackLayer(def) ELSE ClippedWfsLayer(def) ]

\* the states in which processAlgorithm reaches line 162: a commune chosen in
\* the dialog, the eight sources fetched
AtRegistryEntry ==
    /\ pc = "IngestingRegistry"
    /\ canceled = FALSE
    /\ cancelObserved = FALSE
    /\ lookups = 1
    /\ lookup_status = "ok"
    /\ features = SubSeq(Features, 1, Min(MaxMatches, Len(Features)))
    /\ dialogCalls = 1
    /\ candidates = features
    /\ dlg_result = "Accepted"
    /\ commune \in { CommuneOf(candidates[k]) : k \in 1..Len(candidates) }
    /\ dep = get_dep(commune.code)
    /\ raised = ""
    /\ i = NumSources + 1
    /\ fetched = [ k \in 1..NumSources |-> wfs_definitions[k].style_key ]
    /\ \E unclipped \in { {}, {"roads"} } :
         /\ clip_failed = unclipped
         /\ loaded_layers = LoadedAfterFetch(IF unclipped = {} THEN {} ELSE {"parcels"},
                                             unclipped)
    /\ page = 1
    /\ total_pages = 1
    /\ count = 0
    /\ mem_layer = <<>>
    /\ first_data = NoData
    /\ requests = <<>>
    /\ sleeps = 0
    /\ warnings = <<>>
    /\ processing_runs = <<>>
    /\ group = <<>>
    /\ groupInserted = FALSE
    /\ result = NotReturned
    /\ progress = <<5, 10>> \o [ k \in 1..NumSources |-> 10 + (k * 40) \div NumSources ]

InitRegistry == AtRegistryEntry /\ data = NoData

NextRegistry ==
    \/ Cancel
    \/ SireneSkipped \/ SirenePageCancelled \/ SirenePageHttpError
    \/ SirenePageFails \/ SirenePageAny
    \/ SireneNothing \/ SireneLoaded \/ SireneReprojectFails \/ SireneClipFails
    \/ Compose

SpecRegistry == InitRegistry /\ [][NextRegistry]_vars

\* ------------------------------------------- the extraction of one page
\* every establishment the upstream may send with siret s
AllEtabs(s) ==
    { Etab(s, etat, lat, lon) :
        etat \in { JStr("A"), JStr("F"), JAbsent },
        lat \in { JAbsent, JNum(0), JNum(45), JStr(""), JStr("0"), JStr("45"),
                  JStr("abc"), JList },
        lon \in { JAbsent, JNum(0), JNum(6), JStr(""), JStr("0"), JStr("6"),
                  JStr("abc"), JList } }

\* the bodies whose extraction is checked: one company with any one
\* establishment, and the sampled lists of one page
ExtractInputs ==
    { OkResponse(JNum(1), JNum(1), << Company(<< e >>) >>) : e \in AllEtabs(SiretAt(1, 1)) }
    \cup { OkResponse(JNum(1), JNum(1), rs) : rs \in ResultSamples(1) }

\* _load_sirene is entered and the first body has arrived
InitExtract == AtRegistryEntry /\ data \in ExtractInputs

\* _load_sirene lines 437-467: the establishments of data are filtered and
\* added to the memory layer
ExtractPage ==
    /\ pc = "IngestingRegistry"
    /\ ~data.received
    /\ mem_layer' = mem_layer \o ExtractFeatures(data.results)
    /\ count' = count + Len(ExtractFeatures(data.results))
    /\ data' = [data EXCEPT !.received = TRUE]
    /\ UNCHANGED << pc, canceled, cancelObserved, resolverVars, raised,
                    fetchVars, loaded_layers, page, total_pages, first_data,
                    requests, sleeps, warnings, processing_runs, projectVars,
                    progress >>

NextExtract == ExtractPage

SpecExtract == InitExtract /\ [][NextExtract]_vars

\* --------------------------------------------------- _get_dep on its own
\* the characters the rules of _get_dep tell apart, and one they do not
CodeChars == {"2", "A", "B", "9", "7", "5"}

\* every code string of at most MaxCodeLen of these characters
Codes == UNION { [1..n -> CodeChars] : n \in 0..MaxCodeLen }

\* _search_commune has returned a commune whose code is any of the strings
InitDep ==
    /\ pc = "Resolving"
    /\ canceled = FALSE
    /\ cancelObserved = FALSE
    /\ lookups = 1
    /\ lookup_status = "ok"
    /\ \E code \in Codes :
         /\ features = << [nom |-> "Annecy", code |-> code,
                            geometry |-> Features[1].geometry] >>
         /\ commune = CommuneOf(features[1])
    /\ dialogCalls = 0
    /\ candidates = <<>>
    /\ dlg_result = "none"
    /\ dep = <<>>
    /\ raised = ""
    /\ i = 1
    /\ fetched = <<>>
    /\ clip_failed = {}
    /\ loaded_layers = <<>>
    /\ page = 1
    /\ total_pages = 1
    /\ count = 0
    /\ mem_layer = <<>>
    /\ data = NoData
    /\ first_data = NoData
    /\ requests = <<>>
    /\ sleeps = 0
    /\ warnings = <<>>
    /\ processing_runs = <<>>
    /\ group = <<>>
    /\ groupInserted = FALSE
    /\ result = NotReturned
    /\ progress = <<>>

\* processAlgorithm lines 105-124: insee = commune['code'], dep = _get_dep(insee)
DeriveDep ==
    /\ pc = "Resolving"
    /\ Resolved(commune)
    /\ UNCHANGED << canceled, cancelObserved, lookups, lookup_status, features,
                    dialogCalls, candidates, dlg_result, raised, fetchVars,
                    loaded_layers, sireneVars, projectVars >>

NextDep == DeriveDep

SpecDep == InitDep /\ [][NextDep]_vars

\* ------------------------------------------------- the end-to-end scenario
\* the single feature the lookup answers with: the commune of code 74012
ScenarioFeature ==
    [nom |-> "Annemasse", code |-> <<"7", "4", "0", "1", "2">>,
     geometry |-> [xmin |-> 5, ymin |-> 45, xmax |-> 7, ymax |-> 47]]

\* the registry's answer: 40 active establishments with coordinates inside
\* the commune, one per company, PER_PAGE on page 1 and the rest on page 2
ScenarioBody(p) ==
    OkResponse(JNum(40), JNum(2),
               [ k \in 1..(IF p = 1 THEN PER_PAGE ELSE 40 - PER_PAGE) |->
                   Company(<< Etab(SiretAt(p, k), JStr("A"), JStr("45"), JStr("6")) >>) ])

\* sources fetched so far that returned no feature
EmptySoFar == Cardinality({ k \in 1..Len(fetched) : fetched[k] \notin DOMAIN loaded_layers })

\* _search_commune lines 255-261 on the scenario's answer
ScenarioLookup ==
    /\ pc = "Resolving"
    /\ features' = << ScenarioFeature >>
    /\ Resolved(CommuneOf(ScenarioFeature))
    /\ lookups' = lookups + 1
    /\ lookup_status' = "ok"
    /\ UNCHANGED << canceled, cancelObserved, dialogCalls, candidates,
                    dlg_result, raised, fetchVars, loaded_layers, sireneVars,
                    projectVars >>

\* _load_wfs_layer lines 352-354: one of the 3 sources that return no feature
ScenarioFetchEmpty ==
    /\ AtFetchCheckpoint /\ ~canceled
    /\ EmptySoFar < 3
    /\ AfterFetch(<<>>)

\* _load_wfs_layer lines 357-364: one of the 5 sources loaded and clipped
ScenarioFetchClipped ==
    /\ AtFetchCheckpoint /\ ~canceled
    /\ Len(fetched) - EmptySoFar < NumSources - 3
    /\ AfterFetch(<<ClippedWfsLayer(wfs_definitions[i])>>)

\* _load_sirene lines 415-475 on the scenario's pages
ScenarioPage == SirenePage(ScenarioBody(page))

NextScenario ==
    \/ ScenarioLookup
    \/ ScenarioFetchEmpty \/ ScenarioFetchClipped
    \/ ScenarioPage
    \/ SireneLoaded
    \/ Compose

SpecScenario == Init /\ [][NextScenario]_vars

\* ======================================================= checked properties
Keys(seq) == { seq[k] : k \in DOMAIN seq }

\* style keys of the layers added to the project group
GroupKeys == { group[k].style_key : k \in DOMAIN group }

\* sirets of the point features delivered in the group
DeliveredSirets ==
    UNION { { group[k].layer.points[j].siret : j \in DOMAIN group[k].layer.points } :
            k \in DOMAIN group }

MemSirets == { mem_layer[k].siret : k \in DOMAIN mem_layer }

\* the first k declared style keys, in declaration order
DeclaredKeys(k) == [ j \in 1..k |-> wfs_definitions[j].style_key ]

NothingFetchedOrComposed ==
    /\ fetched = <<>>
    /\ requests = <<>>
    /\ group = <<>>
    /\ ~groupInserted

\* a registry page request failed (the loop was left with its condition true)
PageFailed ==
    /\ \E k \in DOMAIN warnings : warnings[k] \in {"HTTPError", "Exception"}
    /\ page <= total_pages

NoRegistryFailure ==
    \A k \in DOMAIN warnings : warnings[k] \notin {"HTTPError", "Exception"}

\* C1: when the selection dialog returns none for a multi-match lookup, the
\* run ends Cancelled: no source is fetched, no registry page is requested,
\* nothing is composed and no candidate is taken as the commune.
C1_DeclinedSelectionAborts ==
    dlg_result = "Rejected" =>
        /\ pc = "Cancelled"
        /\ raised = "NoCommuneSelected"
        /\ commune = NoCommune
        /\ NothingFetchedOrComposed

C1_Witness ==
    /\ dlg_result = "Rejected"
    /\ Len(candidates) >= 2
    /\ dialogCalls = 1
    /\ pc = "Cancelled"

\* C2 (as claimed): a cancellation observed at any checkpoint, before a source
\* fetch or before a registry page fetch, ends the run Cancelled; it never
\* enters Composing or Done afterwards.
C2_ObservedCancellationAborts ==
    cancelObserved => pc = "Cancelled"

\* C3 (as claimed): every layer added to the project group has been clipped
\* to the boundary and is in EPSG:2154, whatever the source's outcome.
C3_DeliveredLayersClipped ==
    \A k \in DOMAIN group :
        /\ group[k].layer.clipped
        /\ group[k].layer.crs = "EPSG:2154"

\* C3 (amended): every layer added to the project group is in EPSG:2154, and
\* has been clipped to the boundary unless it is a source layer whose clip
\* failed; the registry layer is always reprojected and clipped, its points
\* lying inside the boundary.
C3_DeliveredClippedUnlessClipFailed ==
    \A k \in DOMAIN group :
        /\ group[k].layer.crs = "EPSG:2154"
        /\ group[k].layer.clipped \/ group[k].style_key \in clip_failed
        /\ group[k].style_key = "sirene" =>
              /\ group[k].layer.clipped
              /\ \A j \in DOMAIN group[k].layer.points :
                    InBox(group[k].layer.points[j], TransformBox(commune.geometry))

C3_Witness ==
    /\ pc = "Done"
    /\ "sirene" \in GroupKeys
    /\ \E k \in DOMAIN group : ~group[k].layer.clipped
    /\ \E k \in DOMAIN group : group[k].layer.clipped /\ group[k].style_key # "sirene"

\* the fetch loop's checkpoint has observed the cancellation
CancelledInFetchLoop == cancelObserved /\ i <= NumSources

\* C4 (as claimed): when cancellation is observed before the k-th source,
\* sources k..N are never fetched and the layers collected from sources
\* 1..k-1 are returned, not discarded.
C4_CollectedLayersReturned ==
    CancelledInFetchLoop =>
        /\ fetched = DeclaredKeys(i - 1)
        /\ \A key \in DOMAIN loaded_layers :
              key \in DOMAIN result.outputs \/ key \in GroupKeys

\* C4 (amended): when cancellation is observed before the k-th source,
\* sources k..N are never fetched, no registry page is requested, the run
\* returns the empty result and the layers collected from sources 1..k-1 are
\* discarded: none is added to the project.
C4_CancelledFetchDiscards ==
    CancelledInFetchLoop =>
        /\ pc = "Cancelled"
        /\ fetched = DeclaredKeys(i - 1)
        /\ requests = <<>>
        /\ result = ReturnEmpty
        /\ group = <<>>
        /\ ~groupInserted

C4_Witness ==
    /\ CancelledInFetchLoop
    /\ pc = "Cancelled"
    /\ i \in 3..NumSources
    /\ Cardinality(DOMAIN loaded_layers) >= 2

\* C5: with no cancellation and no failed request, if the first response
\* reports total_pages = n >= 1, exactly n page requests are sent, numbered
\* 1..n in increasing order, each with the commune's code and a page size of
\* 25, and the loop is then left.
C5_ExactlyNPageRequests ==
    LET n == first_data.total_pages.n
    IN  (first_data.received /\ first_data.total_pages.t = "num" /\ n >= 1) =>
            /\ Len(requests) <= n
            /\ \A k \in DOMAIN requests :
                  requests[k] = [code_commune |-> commune.code, per_page |-> 25,
                                 page |-> k]
            /\ (pc = "IngestingRegistry" /\ Len(requests) = n) => page > total_pages
            /\ (pc \in {"Composing", "Done"} /\ ~cancelObserved /\ NoRegistryFailure)
                  => Len(requests) = n

C5_Witness ==
    /\ pc = "Done"
    /\ ~canceled
    /\ NoRegistryFailure
    /\ first_data.total_pages = JNum(2)
    /\ Len(requests) = 2
    /\ requests[2].page = 2

\* C6: if cancellation is requested between two registry page requests, no
\* further page is requested, the ingester returns None and no feature
\* accumulated from the earlier pages is in a delivered layer.
C6_CancelBetweenPagesDiscards ==
    (cancelObserved /\ pc \in {"Composing", "Done"}) =>
        /\ Len(requests) = page - 1
        /\ "sirene" \notin DOMAIN loaded_layers
        /\ DeliveredSirets \cap MemSirets = {}
        /\ "sirene" \notin GroupKeys

C6_Witness ==
    /\ cancelObserved
    /\ pc = "Done"
    /\ Len(requests) = 1
    /\ total_pages = 2
    /\ mem_layer # <<>>
    /\ group # <<>>

\* C7: a failed registry page request on page p ends the ingestion only: no
\* page after p is requested, the ingester returns None so that the features
\* of pages 1..p-1 are discarded, and the run goes on to Composing with the
\* layers already loaded.
C7_PageFailureDropsRegistryOnly ==
    PageFailed =>
        /\ pc \in {"Composing", "Done"}
        /\ raised = ""
        /\ Len(requests) = page
        /\ "sirene" \notin DOMAIN loaded_layers
        /\ DeliveredSirets = {}
        /\ DOMAIN loaded_layers \subseteq Keys(fetched)
        /\ pc = "Done" => /\ groupInserted
                          /\ GroupKeys = DOMAIN loaded_layers

C7_Witness ==
    /\ PageFailed
    /\ pc = "Done"
    /\ page = 2
    /\ mem_layer # <<>>
    /\ Cardinality(GroupKeys) >= 7

\* C8: a source that is invalid or has no feature yields None, is not in the
\* composed layers, and does not stop the run: every later declared source is
\* still fetched exactly once, in declaration order, and the registry
\* ingestion still runs (cancellation alone ends the loop early).
C8_NullSourceDoesNotStopRun ==
    /\ fetched = DeclaredKeys(i - 1)
    /\ \A k \in DOMAIN fetched :
          fetched[k] \notin DOMAIN loaded_layers => fetched[k] \notin GroupKeys
    /\ (fetched # <<>> /\ ~cancelObserved) =>
          /\ pc \in {"FetchingLayers", "IngestingRegistry", "Composing", "Done"}
          /\ raised = ""
    /\ pc \in {"IngestingRegistry", "Composing", "Done"} =>
          fetched = DeclaredKeys(NumSources)
    /\ (pc \in {"Composing", "Done"} /\ ~cancelObserved) => requests # <<>>

C8_Witness ==
    /\ pc = "Done"
    /\ ~cancelObserved
    /\ "commune_boundary" \notin DOMAIN loaded_layers
    /\ "parcels" \in GroupKeys
    /\ Len(fetched) = NumSources
    /\ requests # <<>>

\* the establishments of a list data['results']
EtabsOf(results) ==
    UNION { Keys(results[c].matching_etablissements) : c \in DOMAIN results }

Occurrences(siret) == Cardinality({ k \in DOMAIN mem_layer : mem_layer[k].siret = siret })

\* active, with a latitude and a longitude that are present and parse as numbers
ActiveAndLocated(etab) ==
    /\ etab.etat_administratif = JStr("A")
    /\ etab.latitude.t # "absent" /\ Float(etab.latitude).ok
    /\ etab.longitude.t # "absent" /\ Float(etab.longitude).ok

\* C9 (as claimed): an establishment of a response is added to the memory
\* layer if and only if its etat_administratif is "A" and its latitude and
\* longitude are present and parse as numbers (numeric 0 included); a kept
\* one is added exactly once, an excluded one never.
C9_KeptIffActiveAndLocated ==
    data.received =>
        \A etab \in EtabsOf(data.results) :
            Occurrences(etab.siret) = IF ActiveAndLocated(etab) THEN 1 ELSE 0

\* C10: when the lookup answers with no feature the resolver raises and the
\* run ends Failed: no source fetch, no registry request, no composition, and
\* the selection dialog is not opened.
C10_NoMatchFails ==
    (lookup_status = "ok" /\ features = <<>>) =>
        /\ pc = "Failed"
        /\ raised = "NoCommuneFound"
        /\ dialogCalls = 0
        /\ dlg_result = "none"
        /\ commune = NoCommune
        /\ NothingFetchedOrComposed

C10_Witness ==
    /\ lookup_status = "ok"
    /\ features = <<>>
    /\ lookups = 1
    /\ pc = "Failed"

\* C11: the selection dialog is opened if and only if the lookup answers with
\* more than one feature; it is then opened exactly once, with all the
\* features of the answer; a single feature is returned directly, the dialog
\* staying closed.
C11_DialogIffSeveralMatches ==
    /\ dialogCalls = (IF lookup_status = "ok" /\ Len(features) > 1 THEN 1 ELSE 0)
    /\ dialogCalls = 1 => candidates = features
    /\ (lookup_status = "ok" /\ Len(features) = 1) =>
          /\ dlg_result = "none"
          /\ candidates = <<>>
          /\ commune = [nom |-> features[1].nom, code |-> features[1].code,
                        geometry |-> features[1].geometry]
    /\ dlg_result # "none" => dialogCalls = 1

C11_Witness ==
    /\ dialogCalls = 1
    /\ Len(features) = MaxMatches
    /\ candidates = features
    /\ dlg_result = "Accepted"
    /\ commune.code = features[MaxMatches].code
    /\ pc = "Done"

\* C12: a network or HTTP failure of the boundary lookup raises and ends the
\* run Failed without a retry: one lookup request was sent in the run, and no
\* source fetch, registry request or composition follows.
C12_LookupFailureIsFatal ==
    /\ lookups <= 1
    /\ lookup_status = "error" =>
          /\ pc = "Failed"
          /\ raised = "ApiUnreachable"
          /\ lookups = 1
          /\ dialogCalls = 0
          /\ commune = NoCommune
          /\ NothingFetchedOrComposed

C12_Witness ==
    /\ lookup_status = "error"
    /\ lookups = 1
    /\ pc = "Failed"
    /\ raised = "ApiUnreachable"

\* the declared source of a style key
DefOf(key) ==
    CHOOSE d \in { wfs_definitions[k] : k \in 1..NumSources } : d.style_key = key

\* C13: when a source loads validly with a feature but its clip fails, the
\* fetcher returns the loaded layer unclipped, not None, and that layer is in
\* the final composition under the source's style key.
C13_ClipFailureKeepsUnclippedLayer ==
    \A key \in clip_failed :
        /\ key \in DOMAIN loaded_layers
        /\ loaded_layers[key] = [name |-> DefOf(key).display_name,
                                 crs |-> "EPSG:2154", clipped |-> FALSE,
                                 points |-> <<>>]
        /\ pc = "Done" =>
              \E k \in DOMAIN group :
                  group[k] = [style_key |-> key, layer |-> loaded_layers[key]]

C13_Witness ==
    /\ pc = "Done"
    /\ "roads" \in clip_failed
    /\ \E k \in DOMAIN group :
          group[k].style_key = "roads" /\ ~group[k].layer.clipped

\* the reprojection or the clip of the accumulated registry layer has failed
FinalStepFailed == processing_runs # <<>> /\ ~NoRegistryFailure

\* C14: if, after all the pages, the reprojection or the clip of the
\* accumulated layer fails, the ingester warns and returns None with no
\* fallback on the unreprojected or unclipped layer: the registry layer is
\* absent from the composition and the run still completes.
C14_FinalStepFailureDropsRegistry ==
    /\ FinalStepFailed =>
          /\ pc \in {"Composing", "Done"}
          /\ raised = ""
          /\ warnings[Len(warnings)] = "Exception"
          /\ "sirene" \notin DOMAIN loaded_layers
          /\ "sirene" \notin GroupKeys
          /\ DeliveredSirets = {}
          /\ pc = "Done" => /\ groupInserted
                            /\ GroupKeys = DOMAIN loaded_layers
    /\ "sirene" \in DOMAIN loaded_layers =>
          /\ loaded_layers["sirene"].crs = "EPSG:2154"
          /\ loaded_layers["sirene"].clipped

C14_Witness ==
    /\ pc = "Done"
    /\ FinalStepFailed
    /\ processing_runs = << "native:reprojectlayer", "native:clip" >>
    /\ mem_layer # <<>>
    /\ page > total_pages
    /\ Cardinality(GroupKeys) >= 6

\* _load_sirene has left its loop with its condition false and nothing kept
ZeroCountReturn ==
    /\ pc \in {"Composing", "Done"}
    /\ page > total_pages
    /\ count = 0

\* C15: if nothing was accumulated once all the pages are fetched, the
\* ingester returns None without running reproject or clip, and this is not
\* an error: the return pushes no warning (the only warning there may be is
\* the one of the first response reaching the cap), and the run goes on to
\* Composing without a registry layer.
C15_ZeroCountIsNotAnError ==
    ZeroCountReturn =>
        /\ processing_runs = <<>>
        /\ \A k \in DOMAIN warnings : warnings[k] = "Truncated"
        /\ Len(warnings) <= 1
        /\ raised = ""
        /\ "sirene" \notin DOMAIN loaded_layers
        /\ "sirene" \notin GroupKeys
        /\ pc = "Done" => /\ groupInserted
                          /\ GroupKeys = DOMAIN loaded_layers

C15_Witness ==
    /\ ZeroCountReturn
    /\ pc = "Done"
    /\ Len(requests) = 2
    /\ warnings = <<>>
    /\ group # <<>>

\* position of a phase in Resolving -> FetchingLayers -> IngestingRegistry ->
\* Composing -> Done; the dialog belongs to Resolving
PhaseRank(phase) ==
    CASE phase \in {"Resolving", "Choosing"} -> 1
      [] phase = "FetchingLayers"            -> 2
      [] phase = "IngestingRegistry"         -> 3
      [] phase = "Composing"                 -> 4
      [] phase = "Done"                      -> 5
      [] OTHER                               -> 6

\* one step of the run keeps the phases, the fetches, the page requests and
\* the composition in their order
PhaseStep ==
    /\ pc' # pc =>
          \/ pc' \in {"Cancelled", "Failed"} /\ PhaseRank(pc) < 5
          \/ PhaseRank(pc') < 6 /\ PhaseRank(pc') = PhaseRank(pc) + 1
          \/ pc = "Resolving" /\ pc' = "Choosing"
    /\ fetched' # fetched =>
          /\ pc = "FetchingLayers"
          /\ Len(fetched) < NumSources
          /\ fetched' = Append(fetched, wfs_definitions[Len(fetched) + 1].style_key)
    /\ requests' # requests =>
          /\ pc = "IngestingRegistry"
          /\ Len(requests') = Len(requests) + 1
          /\ requests'[Len(requests')].page = Len(requests')
    /\ (group' # group \/ groupInserted' # groupInserted) =>
          pc = "Composing" /\ pc' = "Done"

PhaseInvariant ==
    /\ PhaseRank(pc) \in 3..5 =>
          fetched = [ k \in 1..NumSources |-> wfs_definitions[k].style_key ]
    /\ PhaseRank(pc) < 3 => requests = <<>>
    /\ PhaseRank(pc) < 5 => group = <<>> /\ ~groupInserted

\* C16: the run moves through its phases only in the order Resolving ->
\* FetchingLayers -> IngestingRegistry -> Composing -> Done, or leaves to
\* Cancelled or Failed: the fetcher is called at most once per declared source
\* and in declaration order, the registry ingester is called at most once
\* and only after the source loop has finished, and the composition happens
\* only after the ingestion phase.
C16_PhasesInOrder == []PhaseInvariant /\ [][PhaseStep]_vars

C16_Witness ==
    /\ pc = "Done"
    /\ Len(fetched) = NumSources
    /\ Len(requests) = 2
    /\ "sirene" \in GroupKeys
    /\ Len(group) >= 7

\* the presentation order C17 declares
PresentationOrder ==
    << "sirene", "buildings", "roads", "railways", "vegetation", "rivers",
       "water_surface", "parcels", "commune_boundary" >>

PresentationRank(key) == CHOOSE k \in DOMAIN PresentationOrder : PresentationOrder[k] = key

\* C17: in a run that composes, the layers added to the group are exactly the
\* non-null stage results (every loaded source layer, and the registry layer
\* if there is one), each added once, in the order sirene, buildings, roads,
\* railways, vegetation, rivers, water_surface, parcels, commune_boundary; no
\* loaded layer is left out.
C17_ComposedInPresentationOrder ==
    pc = "Done" =>
        /\ GroupKeys = DOMAIN loaded_layers
        /\ Len(group) = Cardinality(DOMAIN loaded_layers)
        /\ \A k \in DOMAIN group :
              /\ group[k].style_key \in Keys(PresentationOrder)
              /\ group[k].layer = loaded_layers[group[k].style_key]
        /\ \A a, b \in DOMAIN group :
              a < b => PresentationRank(group[a].style_key)
                         < PresentationRank(group[b].style_key)

C17_Witness ==
    /\ pc = "Done"
    /\ Len(group) = 8
    /\ group[1].style_key = "sirene"
    /\ "roads" \notin DOMAIN loaded_layers
    /\ group[8].style_key = "commune_boundary"

\* C18 (as claimed): every run that ends, ends with a completed composition
\* or with an explicit abort message, the runs cancelled during the source
\* loop included.
C18_EndsComposedOrWithAbortMessage ==
    pc \in {"Done", "Cancelled", "Failed"} =>
        \/ pc = "Done" /\ groupInserted
        \/ raised # ""

\* C19: the delay is taken between every two consecutive page requests: for
\* pages 1..n there are n-1 delays, one after each page that another request
\* follows, none after the last page.
C19_DelayBetweenConsecutivePages ==
    /\ sleeps = (IF page <= total_pages THEN page - 1 ELSE page - 2)
    /\ requests # <<>> => sleeps \in { Len(requests) - 1, Len(requests) }
    /\ (pc = "IngestingRegistry" /\ page <= total_pages) => sleeps = Len(requests)
    /\ page > total_pages =>
          /\ Len(requests) = page - 1
          /\ sleeps = Len(requests) - 1

C19_Witness ==
    /\ pc = "Done"
    /\ page > total_pages
    /\ Len(requests) = 2
    /\ sleeps = 1

\* s[:n] = t, stated character by character
IsFirstChars(t, s, n) ==
    /\ Len(t) = (IF Len(s) < n THEN Len(s) ELSE n)
    /\ \A k \in 1..Len(t) : t[k] = s[k]

\* s begins with the two characters a, b
BeginsWith(s, a, b) == Len(s) >= 2 /\ s[1] = a /\ s[2] = b

TruncationWarnings == Cardinality({ k \in DOMAIN warnings : warnings[k] = "Truncated" })

\* the first response reports total_results at or above the cap
FirstAtCap ==
    /\ first_data.received
    /\ first_data.total_results.t = "num"
    /\ first_data.total_results.n >= 10000

\* C21: if the first response reports total_results at or above 10000, one
\* truncation warning is pushed, on page 1 only, and the ingestion goes on
\* through the remaining pages as if none had been; below the cap there is
\* no truncation warning.
C21_TruncationWarnedOnceAndIgnored ==
    /\ TruncationWarnings = (IF FirstAtCap THEN 1 ELSE 0)
    /\ FirstAtCap =>
          /\ warnings[1] = "Truncated"
          /\ pc = "IngestingRegistry" => (page <= total_pages \/ Len(requests) = page - 1)
          /\ (pc \in {"Composing", "Done"} /\ ~cancelObserved /\ ~PageFailed) =>
                /\ page > total_pages
                /\ Len(requests) = page - 1
                /\ count # 0 => processing_runs # <<>>
          /\ raised = ""

C21_Witness ==
    /\ FirstAtCap
    /\ pc = "Done"
    /\ warnings = << "Truncated" >>
    /\ Len(requests) = 2
    /\ "sirene" \in GroupKeys

\* C22: with a single match of code 74012, 3 of the 8 sources empty and the
\* registry answering 2 pages that total 40 active establishments with valid
\* coordinates inside the boundary, the final composition holds the 5
\* non-empty source layers and one registry layer of 40 points, and nothing
\* else.
C22_EndToEndScenario ==
    pc = "Done" =>
        /\ commune.code = <<"7", "4", "0", "1", "2">>
        /\ dialogCalls = 0
        /\ Len(requests) = 2
        /\ Len(group) = 6
        /\ Cardinality(GroupKeys) = 6
        /\ group[1].style_key = "sirene"
        /\ Len(group[1].layer.points) = 40
        /\ Cardinality(DeliveredSirets) = 40
        /\ group[1].layer.clipped /\ group[1].layer.crs = "EPSG:2154"
        /\ \A k \in 2..6 :
              /\ group[k].style_key \in Keys(fetched)
              /\ group[k].layer.points = <<>>
        /\ Cardinality({ k \in DOMAIN fetched : fetched[k] \notin GroupKeys }) = 3
        /\ raised = ""

C22_Witness ==
    /\ pc = "Done"
    /\ Len(group) = 6
    /\ Len(group[1].layer.points) = 40
    /\ GroupKeys = {"sirene", "buildings", "roads", "rivers", "parcels", "commune_boundary"}

\* the progress values of a run that completes, as C24 lists them
FullProgress == << 5, 10, 15, 20, 25, 30, 35, 40, 45, 50, 80, 90, 100 >>

\* C24: the progress values reported during a run are strictly increasing and
\* stay within 0..100: 5, 10, then 10 + int((i+1)*40/8) after the i-th
\* source, then 80, 90, 100, whatever the sources and the registry did.
C24_ProgressStrictlyIncreasing ==
    /\ \A a, b \in DOMAIN progress : a < b => progress[a] < progress[b]
    /\ \A a \in DOMAIN progress : progress[a] \in 0..100
    /\ Len(progress) <= Len(FullProgress)
    /\ progress = SubSeq(FullProgress, 1, Len(progress))
    /\ Len(progress) = (CASE pc \in {"Resolving", "Choosing", "Failed"} -> 0
                          [] pc = "FetchingLayers"    -> 2 + Len(fetched)
                          [] pc = "IngestingRegistry" -> 10
                          [] pc = "Composing"         -> 11
                          [] pc = "Done"              -> 13
                          [] OTHER                    -> IF fetched = <<>> /\ commune = NoCommune
                                                           THEN 0 ELSE 2 + Len(fetched))

C24_Witness ==
    /\ pc = "Done"
    /\ progress = FullProgress
    /\ "roads" \notin GroupKeys
    /\ ~NoRegistryFailure

\* no remote request is sent in this step
NoRequestStarted ==
    /\ lookups' = lookups
    /\ fetched' = fetched
    /\ requests' = requests

\* C25: once the cancellation flag is raised and stays raised, no remote
\* request is started after the next checkpoint: once a checkpoint has seen
\* the flag, no source is fetched and no registry page is requested for the
\* rest of the run.
C25_NoRequestAfterObservedCancel ==
    [][ /\ cancelObserved => (NoRequestStarted /\ cancelObserved')
        /\ (canceled /\ pc \in {"FetchingLayers", "IngestingRegistry"}) =>
              NoRequestStarted ]_vars

C25_Witness ==
    /\ cancelObserved
    /\ pc = "Done"
    /\ Len(fetched) = NumSources
    /\ requests = <<>>

\* C27: a run that ends before Composing (failed lookup, no match, declined
\* selection, cancellation seen in the source loop) leaves the project as it
\* was: no group is inserted and no layer is added, even when source layers
\* had been loaded.
C27_AbortLeavesProjectUnchanged ==
    pc \in {"Failed", "Cancelled"} =>
        /\ group = <<>>
        /\ ~groupInserted
        /\ result.outputs = <<>>

C27_Witness ==
    /\ pc = "Cancelled"
    /\ cancelObserved
    /\ Len(fetched) = 1
    /\ DOMAIN loaded_layers = {"commune_boundary"}
    /\ group = <<>>
    /\ ~groupInserted

\* the page count the first response fixes: its total_pages, 1 if it has none
FirstTotal == IF first_data.total_pages.t = "num" THEN first_data.total_pages.n ELSE 1

\* C26: the number of pages to fetch is fixed by the first response alone:
\* the total_pages of later responses never changes the number of requests,
\* no page number is requested twice, and when the first response has no
\* total_pages or reports 1 or less, one request is sent (unless the run was
\* cancelled before it).
C26_PageCountFixedByFirstResponse ==
    /\ \A k \in DOMAIN requests : requests[k].page = k
    /\ ~first_data.received => Len(requests) <= 1
    /\ first_data.received =>
          /\ requests # <<>>
          /\ Len(requests) <= (IF FirstTotal <= 1 THEN 1 ELSE FirstTotal)
          /\ (pc = "IngestingRegistry" /\ Len(requests) < FirstTotal) => page <= total_pages
          /\ (pc \in {"Composing", "Done"} /\ ~cancelObserved /\ ~PageFailed) =>
                Len(requests) = (IF FirstTotal <= 1 THEN 1 ELSE FirstTotal)

C26_Witness ==
    /\ pc = "Done"
    /\ first_data.received
    /\ FirstTotal = MaxPages + 1
    /\ Len(requests) = MaxPages + 1
    /\ ~cancelObserved

====
